---- MODULE Spec2Model ----
(***************************************************************************)
(* Model of the foam-vscode preview and graph features.                    *)
(*                                                                         *)
(*  - the markdown preview extensions (include-notes, connect-wikilinks)   *)
(*    with the module-level refsStack used as cyclic inclusion guard;      *)
(*  - the graph snapshot export (generateGraphData, cutTitle).             *)
(*                                                                         *)
(* Strings that the code takes apart (wikilink tokens, titles, paths) are  *)
(* sequences of one-character strings.  Embed tokens are only compared     *)
(* and lower-cased, so they are atomic strings with a Lower table.         *)
(***************************************************************************)
EXTENDS Integers, Sequences, FiniteSets, TLC

VARIABLES
    \* ---- preview: include-notes ----
    workspace,      \* note key -> source text (sequence of embed items)
    refsStack,      \* the module-level refsStack
    frames,         \* md.render activations, outermost first
    lastReturn,     \* what the most recent include-notes replace call returned
    html,           \* result of the last completed top-level md.render
    renders,        \* number of top-level renders started
    \* ---- preview: connect-wikilinks ----
    linkIndex,      \* resolution key -> what workspace.find does with it
    linkCall,       \* the most recent connect-wikilinks replace call
    \* ---- graph export ----
    resources,      \* foam.workspace.list()
    connections,    \* foam.graph.getAllConnections()
    titleMaxLength, \* getTitleMaxLength()
    graphData,      \* the value generateGraphData returned last
    \* ---- test runner: bufferLinesAndLog ----
    eol,            \* os.EOL of the platform
    currentLine,    \* the closure variable currentLine
    emitted,        \* the values passed to out, in order
    written,        \* every chunk written so far, put together
    writes,         \* number of chunks written
    \* ---- file selection: Matcher ----
    matcher,        \* the Matcher constructed
    matchCall,      \* the most recent isMatch / match call and its result
    \* ---- graph panel (dataviz feature) ----
    foamReady,      \* foamPromise has resolved
    panel,          \* the variable panel of activate
    alive,          \* webview panels created and not disposed
    nextPanel,      \* identity of the next webview panel
    calls,          \* show-graph invocations suspended at an await
    listeners,      \* panels whose three workspace listeners are registered
    disposeHooks,   \* panels with an onDidDispose callback registered
    editorHandlers, \* onDidChangeActiveTextEditor callbacks registered
    lastEvent       \* the last event handled: what was posted and raised

previewVars == <<workspace, refsStack, frames, lastReturn, html, renders>>
linkVars    == <<linkIndex, linkCall>>
graphVars   == <<resources, connections, titleMaxLength, graphData>>
bufferVars  == <<eol, currentLine, emitted, written, writes>>
matcherVars == <<matcher, matchCall>>
panelVars   == <<foamReady, panel, alive, nextPanel, calls, listeners,
                 disposeHooks, editorHandlers, lastEvent>>
vars        == <<previewVars, linkVars, graphVars, bufferVars, matcherVars,
                 panelVars>>

None == "<none>"

(***************************************************************************)
(* Bounds                                                                  *)
(***************************************************************************)
MaxTextLen == 2     \* embeds per note text
MaxRenders == 2     \* top-level preview renders
StackLimit == 3     \* md.render nesting at which the engine's call stack is exhausted
MaxTokenLen == 3    \* characters of a wikilink token
MaxTitleLen == 3    \* characters of a note title
MaxResources == 2   \* resources listed by the workspace
MaxConnections == 2 \* connections of the graph
MaxChunkLen == 2    \* characters of a chunk written to the stream
MaxWrites == 3      \* chunks written to the stream
MaxRoots == 2       \* root folders of a Matcher
MaxGlobs == 1       \* include (and exclude) patterns of a Matcher
MaxFiles == 2       \* files handed to Matcher.match
MaxLinks == 1       \* links of a note added to the workspace
MaxPanels == 3      \* webview panels created

(***************************************************************************)
(* include-notes                                                           *)
(***************************************************************************)
NoteKeys == {"a", "b"}

\* Embed tokens found between ![[ and ]].  "x" names no note; looking up
\* "?" makes workspace.find raise.
Tokens == {"a", "A", "b", "B", "x", "?"}

\* An item of a note text the renderer raises on.
Crash == "<crash>"

Items == Tokens \cup {Crash}

Texts == UNION {[1..n -> Items] : n \in 0..MaxTextLen}

toLowerCase(w) ==
    CASE w = "A" -> "a"
      [] w = "B" -> "b"
      [] OTHER   -> w

includes(stack, w) == \E i \in 1..Len(stack) : stack[i] = w

\* workspace.find(wikilink): the key of the note found, None, or Crash when
\* the lookup raises.  Titles and file names are matched case-insensitively.
find(w) ==
    IF w = "?" THEN Crash
    ELSE IF toLowerCase(w) \in DOMAIN workspace THEN toLowerCase(w)
    ELSE None

\* kind: which return statement was taken; error: what was caught;
\* before/after: refsStack on entry and on return; expanded: md.render was
\* called on the included text.
NoReturn == [kind |-> "none", token |-> None, html |-> <<>>, error |-> None,
             before |-> <<>>, after |-> <<>>, expanded |-> FALSE]

\* The fragments the callback produces.
RawEmbed(w)      == <<"![[", w, "]]">>
CyclicWarning(w) == <<"<div class=\"foam-cyclic-link-warning\">", w, "</div>">>

\* A broken catch block: the token is put back instead of ''.
includeCatchResultRaw(w) == RawEmbed(w)

\* What the catch block of include-notes returns for the token w.
includeCatchResult(w) == <<>>

Top == frames[Len(frames)]
TopText == workspace[Top.note]
AtItem == Len(frames) > 0 /\ Top.pos <= Len(TopText)
Item == TopText[Top.pos]

\* The replace callback of the frame fs[Len(fs)] returns out: the renderer
\* appends it to that frame's output and moves to the next item.
Emit(fs, out) ==
    [fs EXCEPT ![Len(fs)] = [@ EXCEPT !.out = @ \o out, !.pos = @ + 1]]

Frame(n, w, entry) ==
    [note |-> n, pos |-> 1, out |-> <<>>, token |-> w, before |-> entry]

PreviewInit ==
    /\ workspace \in [NoteKeys -> Texts]
    /\ refsStack = <<>>
    /\ frames = <<>>
    /\ lastReturn = NoReturn
    /\ html = <<>>
    /\ renders = 0

\* The preview renders the document n: md.render(text of n).
Render(n) ==
    /\ frames = <<>>
    /\ renders < MaxRenders
    /\ renders' = renders + 1
    /\ frames' = <<Frame(n, None, refsStack)>>
    /\ UNCHANGED <<workspace, refsStack, lastReturn, html>>

\* replace: workspace.find returns nothing, the token is put back.
ReplaceUnresolved ==
    /\ AtItem /\ Item \in Tokens
    /\ find(Item) = None
    /\ frames' = Emit(frames, RawEmbed(Item))
    /\ lastReturn' = [kind |-> "unresolved", token |-> Item,
                      html |-> RawEmbed(Item), error |-> None,
                      before |-> refsStack, after |-> refsStack,
                      expanded |-> FALSE]
    /\ UNCHANGED <<workspace, refsStack, html, renders>>

\* replace: workspace.find raises, the catch block returns ''.
ReplaceFindThrows ==
    /\ AtItem /\ Item \in Tokens
    /\ find(Item) = Crash
    /\ frames' = Emit(frames, includeCatchResult(Item))
    /\ lastReturn' = [kind |-> "error", token |-> Item,
                      html |-> includeCatchResult(Item), error |-> "find",
                      before |-> refsStack, after |-> refsStack,
                      expanded |-> FALSE]
    /\ UNCHANGED <<workspace, refsStack, html, renders>>

\* const cyclicLinkDetected = refsStack.includes(wikilink)
cyclicLinkDetected(w) == includes(refsStack, w)

\* replace: the guard trips, the warning is returned.
ReplaceCyclic ==
    /\ AtItem /\ Item \in Tokens
    /\ find(Item) \in NoteKeys
    /\ cyclicLinkDetected(Item)
    /\ frames' = Emit(frames, CyclicWarning(Item))
    /\ lastReturn' = [kind |-> "cyclic", token |-> Item,
                      html |-> CyclicWarning(Item), error |-> None,
                      before |-> refsStack, after |-> refsStack,
                      expanded |-> FALSE]
    /\ UNCHANGED <<workspace, refsStack, html, renders>>

\* replace: the key is pushed and md.render is entered on the included text.
ReplaceExpand ==
    /\ AtItem /\ Item \in Tokens
    /\ find(Item) \in NoteKeys
    /\ ~cyclicLinkDetected(Item)
    /\ Len(frames) < StackLimit
    /\ refsStack' = Append(refsStack, toLowerCase(Item))
    /\ frames' = Append(frames, Frame(find(Item), Item, refsStack))
    /\ UNCHANGED <<workspace, lastReturn, html, renders>>

\* replace: the key is pushed, md.render exhausts the call stack, the
\* RangeError is caught by this call's catch block, which returns ''.
ReplaceOverflow ==
    /\ AtItem /\ Item \in Tokens
    /\ find(Item) \in NoteKeys
    /\ ~cyclicLinkDetected(Item)
    /\ Len(frames) = StackLimit
    /\ refsStack' = Append(refsStack, toLowerCase(Item))
    /\ frames' = Emit(frames, includeCatchResult(Item))
    /\ lastReturn' = [kind |-> "error", token |-> Item,
                      html |-> includeCatchResult(Item),
                      error |-> "RangeError", before |-> refsStack,
                      after |-> Append(refsStack, toLowerCase(Item)),
                      expanded |-> TRUE]
    /\ UNCHANGED <<workspace, html, renders>>

\* refsStack.pop()
pop(stack) == SubSeq(stack, 1, Len(stack) - 1)

\* The nested md.render returns: the key is popped, the html is returned.
ExpandReturn ==
    /\ Len(frames) > 1
    /\ Top.pos > Len(TopText)
    /\ refsStack' = pop(refsStack)
    /\ frames' = Emit(pop(frames), Top.out)
    /\ lastReturn' = [kind |-> "html", token |-> Top.token, html |-> Top.out,
                      error |-> None,
                      before |-> Top.before, after |-> pop(refsStack),
                      expanded |-> TRUE]
    /\ UNCHANGED <<workspace, html, renders>>

\* The nested md.render raises: the catch block of the enclosing replace
\* call returns ''.
ExpandThrows ==
    /\ Len(frames) > 1
    /\ AtItem /\ Item = Crash
    /\ frames' = Emit(pop(frames), includeCatchResult(Top.token))
    /\ lastReturn' = [kind |-> "error", token |-> Top.token,
                      html |-> includeCatchResult(Top.token),
                      error |-> "render",
                      before |-> Top.before, after |-> refsStack,
                      expanded |-> TRUE]
    /\ UNCHANGED <<workspace, refsStack, html, renders>>

\* The top-level md.render returns to the preview.
RenderDone ==
    /\ Len(frames) = 1
    /\ Top.pos > Len(TopText)
    /\ html' = Top.out
    /\ frames' = <<>>
    /\ UNCHANGED <<workspace, refsStack, lastReturn, renders>>

\* The top-level md.render raises outside any replace call.
RenderThrows ==
    /\ Len(frames) = 1
    /\ AtItem /\ Item = Crash
    /\ html' = <<>>
    /\ frames' = <<>>
    /\ UNCHANGED <<workspace, refsStack, lastReturn, renders>>

PreviewNext ==
    \/ \E n \in NoteKeys : Render(n)
    \/ ReplaceUnresolved
    \/ ReplaceFindThrows
    \/ ReplaceCyclic
    \/ ReplaceExpand
    \/ ReplaceOverflow
    \/ ExpandReturn
    \/ ExpandThrows
    \/ RenderDone
    \/ RenderThrows

(***************************************************************************)
(* connect-wikilinks                                                       *)
(***************************************************************************)
ALIAS_DIVIDER_CHAR == "|"

LinkChars == {"n", "t", ALIAS_DIVIDER_CHAR}

\* The text between [[ and ]]: the regex admits no empty token.
LinkTokens == UNION {[1..n -> LinkChars] : n \in 1..MaxTokenLen}

\* Resources the workspace may hold, by title.
LinkResources ==
    { [title |-> <<"n">>,      uri |-> [scheme |-> "file", path |-> "/w/n.md"]],
      [title |-> <<"t">>,      uri |-> [scheme |-> "file", path |-> "/w/t.md"]],
      [title |-> <<"n", "t">>, uri |-> [scheme |-> "file", path |-> "/w/nt.md"]] }

\* Keys whose lookup may raise inside workspace.find.
LinkBadKeys == {<<"t">>, <<"n", "n">>}

NoResource == [title |-> <<>>, uri |-> [scheme |-> None, path |-> None]]

\* workspace.find(resourceLink) on the workspace ws: the lookup raises,
\* or returns nothing, or returns the resource with that title.
linkFind(ws, key) ==
    IF key \in ws.raising THEN [kind |-> "raised", resource |-> NoResource]
    ELSE IF \E r \in ws.notes : r.title = key
         THEN [kind |-> "found",
               resource |-> CHOOSE r \in ws.notes : r.title = key]
         ELSE [kind |-> "none", resource |-> NoResource]

\* wikilink.includes(ALIAS_DIVIDER_CHAR)
linkHasAlias(w) == \E i \in 1..Len(w) : w[i] = ALIAS_DIVIDER_CHAR

\* A wrong divider search: the last '|' instead of the first.
lastIndexOf(w) ==
    CHOOSE i \in 1..Len(w) :
        /\ w[i] = ALIAS_DIVIDER_CHAR
        /\ \A j \in (i + 1)..Len(w) : w[j] # ALIAS_DIVIDER_CHAR

\* wikilink.indexOf('|'), one-based; used only when the divider occurs.
indexOf(w) ==
    CHOOSE i \in 1..Len(w) :
        /\ w[i] = ALIAS_DIVIDER_CHAR
        /\ \A j \in 1..(i - 1) : w[j] # ALIAS_DIVIDER_CHAR

\* linkHasAlias ? wikilink.substring(0, wikilink.indexOf('|')) : wikilink
resourceLink(w) ==
    IF linkHasAlias(w) THEN SubSeq(w, 1, indexOf(w) - 1) ELSE w

\* linkHasAlias ? wikilink.substr(wikilink.indexOf('|') + 1) : wikilink
linkLabel(w) ==
    IF linkHasAlias(w) THEN SubSeq(w, indexOf(w) + 1, Len(w)) ELSE w

\* URI.toFsPath(uri) for a file uri on a POSIX host.
toFsPath(uri) == uri.path

getPlaceholderLink(content) ==
    [class |-> "foam-placeholder-link", title |-> "Link to non-existing resource",
     href |-> "javascript:void(0);", dataHref |-> None, content |-> content]

getNoteLink(resource, label) ==
    [class |-> "foam-note-link", title |-> resource.title,
     href |-> toFsPath(resource.uri), dataHref |-> toFsPath(resource.uri),
     content |-> label]

NoAnchor ==
    [class |-> None, title |-> None, href |-> None, dataHref |-> None,
     content |-> <<>>]

\* A broken catch block: the error is answered with no anchor at all.
linkCatchResultEmpty(w) == NoAnchor

\* What the catch block of connect-wikilinks returns.
linkCatchResult(w) == getPlaceholderLink(w)

\* The replace callback of connect-wikilinks on the token w.
linkReplace(ws, w) ==
    LET found == linkFind(ws, resourceLink(w)) IN
    IF found.kind = "raised" THEN linkCatchResult(w)
    ELSE IF found.kind = "none" THEN getPlaceholderLink(resourceLink(w))
    ELSE getNoteLink(found.resource, linkLabel(w))

NoCall == [wikilink |-> <<>>, key |-> <<>>, out |-> NoAnchor]

LinkInit ==
    /\ linkIndex \in [notes : SUBSET LinkResources, raising : SUBSET LinkBadKeys]
    /\ linkCall = NoCall

\* The renderer meets [[w]] and calls replace(w).
ConnectWikilinks(w) ==
    /\ linkCall' = [wikilink |-> w,
                    key |-> resourceLink(w),
                    out |-> linkReplace(linkIndex, w)]
    /\ UNCHANGED linkIndex

LinkNext == \E w \in LinkTokens : ConnectWikilinks(w)

(***************************************************************************)
(* Graph export: generateGraphData                                         *)
(***************************************************************************)
Ellipsis == <<".", ".", ".">>

\* A title of n characters, all different.
TitleOfLen(n) == SubSeq(<<"H", "e", "l", "o", "W">>, 1, n)

Titles == {TitleOfLen(n) : n \in 0..MaxTitleLen}

\* Values getTitleMaxLength() may return.
TitleMaxLengths == (0 - 1)..MaxTitleLen

FileUris ==
    { [scheme |-> "file", path |-> <<"/", "a">>],
      [scheme |-> "file", path |-> <<"/", "d", "/", "b">>] }

PlaceholderUris ==
    { [scheme |-> "placeholder", path |-> <<"c">>],
      [scheme |-> "placeholder", path |-> <<"t", "a", "g">>] }

EmptyMap == [k \in {} |-> None]
TypedProperties == [k \in {"type"} |-> "feature"]

\* The resources a workspace may list.
Notes ==
    [type : {"note"}, uri : FileUris, title : Titles,
     properties : {EmptyMap, TypedProperties}, tags : {{}}]

Placeholders ==
    [type : {"placeholder"}, uri : PlaceholderUris, title : {<<>>},
     properties : {EmptyMap}, tags : {{}}]

Resources == Notes \cup Placeholders

\* Connections as generateGraphData reads them: source and target uri.
Connections == [source : FileUris, target : FileUris \cup PlaceholderUris]

Range(seq) == {seq[i] : i \in 1..Len(seq)}

\* The workspace maps each identifier to one resource, every connection
\* starts at a note of the workspace and ends at a note of the workspace or
\* at a placeholder.
Consistent(rs, cs) ==
    /\ \A i, j \in 1..Len(rs) : i # j => rs[i].uri.path # rs[j].uri.path
    /\ \A i \in 1..Len(cs) :
           /\ \E r \in Range(rs) : r.type = "note" /\ r.uri = cs[i].source
           /\ cs[i].target \in FileUris => \E r \in Range(rs) : r.uri = cs[i].target

\* URI.isPlaceholder(uri)
isPlaceholder(uri) == uri.scheme = "placeholder"

\* path.basename(p): what follows the last '/'.
basename(p) ==
    LET slashes == {i \in 1..Len(p) : p[i] = "/"}
        last    == IF slashes = {} THEN 0
                   ELSE CHOOSE i \in slashes : \A j \in slashes : j <= i
    IN  SubSeq(p, last + 1, Len(p))

\* A wrong length test: titles of exactly maxLen characters are cut too.
cutTitleAtLeast(title, maxLen) ==
    IF maxLen > 0 /\ Len(title) >= maxLen
    THEN SubSeq(title, 1, maxLen) \o Ellipsis
    ELSE title

\* cutTitle(title), with maxLen the value of getTitleMaxLength().
cutTitle(title, maxLen) ==
    IF maxLen > 0 /\ Len(title) > maxLen
    THEN SubSeq(title, 1, maxLen) \o Ellipsis
    ELSE title

\* obj[key] = value
Put(obj, key, value) ==
    [k \in DOMAIN obj \cup {key} |-> IF k = key THEN value ELSE obj[k]]

\* The nodeInfo entry written for a listed resource n.
resourceNode(n, maxLen) ==
    [id |-> n.uri.path,
     type |-> IF n.type = "note"
              THEN IF "type" \in DOMAIN n.properties
                   THEN n.properties["type"] ELSE "note"
              ELSE n.type,
     uri |-> n.uri,
     title |-> cutTitle(IF n.type = "note" THEN n.title
                        ELSE basename(n.uri.path), maxLen),
     properties |-> n.properties,
     tags |-> n.tags]

\* The nodeInfo entry written for a placeholder target.
placeholderNode(target) ==
    [id |-> target.path, type |-> "placeholder", uri |-> target,
     title |-> target.path, properties |-> EmptyMap, tags |-> None]

\* foam.workspace.list().forEach(n => graph.nodeInfo[n.uri.path] = ...)
RECURSIVE listNodes(_, _, _)
listNodes(nodeInfo, rs, maxLen) ==
    IF rs = <<>> THEN nodeInfo
    ELSE listNodes(Put(nodeInfo, rs[1].uri.path, resourceNode(rs[1], maxLen)),
                   Tail(rs), maxLen)

\* A wrong connection callback: an entry already in nodeInfo is kept.
connectionNodeIfAbsent(nodeInfo, c) ==
    IF isPlaceholder(c.target) /\ c.target.path \notin DOMAIN nodeInfo
    THEN Put(nodeInfo, c.target.path, placeholderNode(c.target))
    ELSE nodeInfo

\* if (URI.isPlaceholder(c.target)) graph.nodeInfo[c.target.path] = ...
connectionNode(nodeInfo, c) ==
    IF isPlaceholder(c.target)
    THEN Put(nodeInfo, c.target.path, placeholderNode(c.target))
    ELSE nodeInfo

RECURSIVE connectionNodes(_, _)
connectionNodes(nodeInfo, cs) ==
    IF cs = <<>> THEN nodeInfo
    ELSE connectionNodes(connectionNode(nodeInfo, cs[1]), Tail(cs))

\* graph.edges.add({source, target}): edges is a Set and the argument a
\* new object each time.  A Set holds objects by identity, so the new
\* object is never found in it and is always added, in insertion order.
edgesAdd(edges, c) ==
    Append(edges, [source |-> c.source.path, target |-> c.target.path])

RECURSIVE connectionEdges(_, _)
connectionEdges(edges, cs) ==
    IF cs = <<>> THEN edges
    ELSE connectionEdges(edgesAdd(edges, cs[1]), Tail(cs))

generateGraphData(rs, cs, maxLen) ==
    [nodeInfo |-> connectionNodes(listNodes(EmptyMap, rs, maxLen), cs),
     links    |-> connectionEdges(<<>>, cs)]

\* A wrong export: the cut title is written back to the resource.
listWithCutTitles(rs, maxLen) ==
    [i \in DOMAIN rs |-> [rs[i] EXCEPT !.title = cutTitle(@, maxLen)]]

\* The workspace list once generateGraphData has returned: the callbacks
\* read the resources and assign to graph.nodeInfo and graph.edges only.
listAfterExport(rs, maxLen) == rs

NoGraphData == [generated |-> FALSE, nodeInfo |-> EmptyMap, links |-> <<>>]

GraphInit ==
    /\ resources \in UNION {[1..n -> Resources] : n \in 0..MaxResources}
    /\ connections \in UNION {[1..n -> Connections] : n \in 0..MaxConnections}
    /\ Consistent(resources, connections)
    /\ titleMaxLength \in TitleMaxLengths
    /\ graphData = NoGraphData

\* updateGraph: const graph = generateGraphData(foam)
GenerateGraphData ==
    /\ graphData' = [generated |-> TRUE] @@
                    generateGraphData(resources, connections, titleMaxLength)
    /\ resources' = listAfterExport(resources, titleMaxLength)
    /\ UNCHANGED <<connections, titleMaxLength>>

GraphNext == GenerateGraphData

(***************************************************************************)
(* Test runner: bufferLinesAndLog                                          *)
(***************************************************************************)
LF == <<"LF">>
CRLF == <<"CR", "LF">>

\* os.EOL: '\n' on POSIX, '\r\n' on Windows.
EOLs == {LF, CRLF}

ChunkChars == {"a", "CR", "LF"}
Chunks == UNION {[1..n -> ChunkChars] : n \in 0..MaxChunkLen}

\* The one-based position of the first occurrence of sep in s, 0 if none.
search(s, sep) ==
    LET hits == {i \in 1..(Len(s) - Len(sep) + 1) :
                     SubSeq(s, i, i + Len(sep) - 1) = sep}
    IN  IF hits = {} THEN 0 ELSE CHOOSE i \in hits : \A j \in hits : i <= j

\* String.prototype.split(sep) for a non-empty separator.
RECURSIVE split(_, _)
split(s, sep) ==
    LET i == search(s, sep)
    IN  IF i = 0 THEN <<s>>
        ELSE <<SubSeq(s, 1, i - 1)>> \o split(SubSeq(s, i + Len(sep), Len(s)), sep)

BufferInit ==
    /\ eol \in EOLs
    /\ currentLine = <<>>
    /\ emitted = <<>>
    /\ written = <<>>
    /\ writes = 0

\* The function bufferLinesAndLog returns, called with the chunk buffer.
Write(buffer) ==
    LET parts       == split(buffer, eol)
        partialLine == parts[Len(parts)]
        lines       == SubSeq(parts, 1, Len(parts) - 1)
    IN  /\ writes < MaxWrites
        /\ writes' = writes + 1
        /\ written' = written \o buffer
        /\ IF Len(lines) > 0
           THEN /\ emitted' = emitted \o <<currentLine \o lines[1]>> \o Tail(lines)
                /\ currentLine' = partialLine
           ELSE /\ emitted' = emitted
                /\ currentLine' = currentLine \o partialLine
        /\ UNCHANGED eol

BufferNext == \E buffer \in Chunks : Write(buffer)

(***************************************************************************)
(* File selection: Matcher                                                 *)
(***************************************************************************)
\* Paths are character sequences; a glob is a sequence of characters and of
\* the two wildcards "*" (within one path segment) and "**/" (any number
\* of whole leading segments).
Star == "*"
GlobStar == "**/"

\* Root folders: the test folder and the file system root.
MatcherRoots == {<<"/", "t">>, <<"/">>}

\* The patterns of the tests: '**/*', '*.md', 'file1.*'.
MatcherGlobs ==
    { <<GlobStar, Star>>, <<Star, ".", "m">>, <<"f", ".", Star>> }

\* file1.md, file2.md, file3.mdx and sub/file4.md of the test folder, and
\* a file outside it.
MatcherFiles ==
    { <<"/", "t", "/", "f", ".", "m">>,
      <<"/", "t", "/", "g", ".", "m">>,
      <<"/", "t", "/", "f", ".", "m", "x">>,
      <<"/", "t", "/", "s", "/", "f", ".", "m">>,
      <<"/", "o", "/", "f", ".", "m">> }

\* Conventional glob matching of the whole path s against the glob g.
RECURSIVE globMatch(_, _)
globMatch(g, s) ==
    IF g = <<>> THEN s = <<>>
    ELSE IF Head(g) = Star
    THEN \/ globMatch(Tail(g), s)
         \/ (s # <<>> /\ Head(s) # "/" /\ globMatch(g, Tail(s)))
    ELSE IF Head(g) = GlobStar
    THEN \/ globMatch(Tail(g), s)
         \/ \E i \in 1..Len(s) :
                s[i] = "/" /\ globMatch(Tail(g), SubSeq(s, i + 1, Len(s)))
    ELSE s # <<>> /\ Head(s) = Head(g) /\ globMatch(Tail(g), Tail(s))

\* URI.joinPath(folder, glob)
folderPlusGlob(folder, glob) ==
    IF folder[Len(folder)] = "/" THEN folder \o glob
    ELSE folder \o <<"/">> \o glob

\* Every pattern of globs rendered relative to every folder of folders.
RECURSIVE withFolders(_, _)
withFolders(folders, globs) ==
    IF folders = <<>> THEN <<>>
    ELSE [i \in 1..Len(globs) |-> folderPlusGlob(folders[1], globs[i])]
         \o withFolders(Tail(folders), globs)

\* new Matcher(baseFolders, include, exclude)
newMatcher(baseFolders, include, exclude) ==
    [folders |-> baseFolders,
     include |-> withFolders(baseFolders, include),
     exclude |-> withFolders(baseFolders, exclude)]

\* A wrong isMatch: the exclude list is not consulted.
isMatchIncludeOnly(m, f) ==
    \E i \in 1..Len(m.include) : globMatch(m.include[i], f)

\* Matcher.isMatch(f)
isMatch(m, f) ==
    /\ \E i \in 1..Len(m.include) : globMatch(m.include[i], f)
    /\ ~\E j \in 1..Len(m.exclude) : globMatch(m.exclude[j], f)

RECURSIVE unique(_)
unique(fs) ==
    IF fs = <<>> THEN <<>>
    ELSE <<fs[1]>> \o unique(SelectSeq(Tail(fs), LAMBDA f : f # fs[1]))

\* A wrong match: a file given twice is returned once.
matchUnique(m, files) == unique(SelectSeq(files, LAMBDA f : isMatch(m, f)))

\* Matcher.match(files)
match(m, files) == SelectSeq(files, LAMBDA f : isMatch(m, f))

NoMatchCall == [op |-> "none", files |-> <<>>, matches |-> <<>>, answer |-> FALSE]

SeqsOf(S, lo, hi) == UNION {[1..n -> S] : n \in lo..hi}

MatcherInit ==
    /\ \E folders \in SeqsOf(MatcherRoots, 1, MaxRoots),
          include \in SeqsOf(MatcherGlobs, 1, MaxGlobs),
          exclude \in SeqsOf(MatcherGlobs, 0, MaxGlobs) :
           matcher = newMatcher(folders, include, exclude)
    /\ matchCall = NoMatchCall

\* matcher.isMatch(f)
IsMatchCall(f) ==
    /\ matchCall' = [op |-> "isMatch", files |-> <<f>>, matches |-> <<>>,
                     answer |-> isMatch(matcher, f)]
    /\ UNCHANGED matcher

\* matcher.match(files)
MatchCall(files) ==
    /\ matchCall' = [op |-> "match", files |-> files,
                     matches |-> match(matcher, files), answer |-> FALSE]
    /\ UNCHANGED matcher

MatcherNext ==
    \/ \E f \in MatcherFiles : IsMatchCall(f)
    \/ \E files \in SeqsOf(MatcherFiles, 0, MaxFiles) : MatchCall(files)

(***************************************************************************)
(* Workspace and graph maintenance                                         *)
(***************************************************************************)
\* The notes the file watcher may report, without their links.
WatchedNotes ==
    [type : {"note"}, uri : FileUris, title : {TitleOfLen(1)},
     properties : {EmptyMap}, tags : {{}}]

placeholderResource(uri) ==
    [type |-> "placeholder", uri |-> uri, title |-> <<>>,
     properties |-> EmptyMap, tags |-> {}]

has(rs, uri) == \E i \in 1..Len(rs) : rs[i].uri = uri

\* Workspace.get(uri) finds a resource
isSome(rs, uri) == has(rs, uri)

\* The targets a link of the note at uri can resolve to: a note of the
\* workspace (or the note itself), or a placeholder.
LinkTargets(rs, uri) ==
    {u \in FileUris : has(rs, u) \/ u = uri} \cup PlaceholderUris

\* The resource is inserted, or replaces the entry of its identifier.
set(rs, r) ==
    IF has(rs, r.uri)
    THEN [i \in 1..Len(rs) |-> IF rs[i].uri = r.uri THEN r ELSE rs[i]]
    ELSE Append(rs, r)

\* A placeholder is synthesized for every target without a resource;
\* creating the same placeholder twice is a no-op.
RECURSIVE withPlaceholders(_, _)
withPlaceholders(rs, targets) ==
    IF targets = <<>> THEN rs
    ELSE withPlaceholders(
             IF isPlaceholder(targets[1]) /\ ~has(rs, targets[1])
             THEN Append(rs, placeholderResource(targets[1])) ELSE rs,
             Tail(targets))

\* The connections once the note at uri has the link targets given: its
\* old outgoing connections are discarded, the new ones installed.
reconnect(cs, uri, targets) ==
    SelectSeq(cs, LAMBDA c : c.source # uri)
    \o [i \in 1..Len(targets) |-> [source |-> uri, target |-> targets[i]]]

referenced(cs, uri) == \E i \in 1..Len(cs) : cs[i].target = uri

\* A wrong clean-up: placeholders are never collected.
keepPlaceholders(rs, cs) == rs

\* Placeholders without an incoming connection are deleted.
collectPlaceholders(rs, cs) ==
    SelectSeq(rs, LAMBDA r : r.type # "placeholder" \/ referenced(cs, r.uri))

\* Workspace.add(note) for a note with the link targets given.
wsAdd(rs, cs, note, targets) ==
    [resources   |-> withPlaceholders(set(rs, note), targets),
     connections |-> reconnect(cs, note.uri, targets),
     event       |-> IF has(rs, note.uri) THEN "updated" ELSE "added"]

\* Workspace.delete(uri)
wsDelete(rs, cs, uri) ==
    IF ~has(rs, uri)
    THEN [resources |-> rs, connections |-> cs, event |-> "none"]
    ELSE LET left == SelectSeq(cs, LAMBDA c : c.source # uri)
         IN  [resources   |-> collectPlaceholders(
                                  SelectSeq(rs, LAMBDA r : r.uri # uri), left),
              connections |-> left,
              event       |-> "deleted"]

(***************************************************************************)
(* Graph panel: the dataviz feature                                        *)
(***************************************************************************)
\* The value of panel when it is undefined; panels are numbered from 1.
undefined == 0

NoEvent == [kind |-> "none", subject |-> <<>>, posted |-> <<>>, errors |-> 0, removed |-> {}]

Message(type, to, payload) == [type |-> type, to |-> to, payload |-> payload]

\* getGraphStyle()
graphStyle == "style"

\* n callbacks each run body, which reads panel.webview: with panel
\* undefined each raises a TypeError, otherwise each posts the message.
postEach(n, type, payload) ==
    IF panel = undefined
    THEN [posted |-> <<>>, errors |-> n]
    ELSE [posted |-> [i \in 1..n |-> Message(type, panel, payload)],
          errors |-> 0, removed |-> {}]

\* The workspace fires the event (if any) to every registered
\* onFoamChanged listener: updateGraph(panel, foam).
onFoamChanged(after, subject) ==
    LET n == IF after.event = "none" THEN 0 ELSE Cardinality(listeners)
        snapshot == generateGraphData(after.resources, after.connections,
                                      titleMaxLength)
        done == postEach(n, "didUpdateGraphData", snapshot)
    IN  /\ resources' = after.resources
        /\ connections' = after.connections
        /\ graphData' = IF n > 0 THEN [generated |-> TRUE] @@ snapshot
                        ELSE graphData
        /\ lastEvent' = [kind |-> after.event, subject |-> subject,
                         posted |-> done.posted, errors |-> done.errors,
                         removed |-> {r.uri : r \in Range(resources)}
                                     \ {r.uri : r \in Range(after.resources)}]
        /\ UNCHANGED <<titleMaxLength, foamReady, panel, alive, nextPanel,
                       calls, listeners, disposeHooks, editorHandlers>>

\* A file is added or changed: Workspace.add and its event.
WorkspaceAdd(note, targets) ==
    onFoamChanged(wsAdd(resources, connections, note, targets), note.uri.path)

\* A file is removed: Workspace.delete and its event.
WorkspaceDelete(uri) ==
    onFoamChanged(wsDelete(resources, connections, uri), uri.path)

WorkspaceNext ==
    \/ \E note \in WatchedNotes :
           \E targets \in SeqsOf(LinkTargets(resources, note.uri), 0, MaxLinks) :
               WorkspaceAdd(note, targets)
    \/ \E uri \in FileUris : WorkspaceDelete(uri)

PanelInit ==
    /\ foamReady = FALSE
    /\ panel = undefined
    /\ alive = {}
    /\ nextPanel = 1
    /\ calls = <<>>
    /\ listeners = {}
    /\ disposeHooks = {}
    /\ editorHandlers = 0
    /\ lastEvent = NoEvent

\* foamPromise resolves.
FoamResolves ==
    /\ ~foamReady
    /\ foamReady' = TRUE
    /\ UNCHANGED <<panel, alive, nextPanel, calls, listeners, disposeHooks,
                   editorHandlers, lastEvent, graphVars>>

\* onDidChangeConfiguration, for a change that affects foam.graph.style or
\* one that does not.
ConfigurationChanged(affectsStyle) ==
    LET done == postEach(IF affectsStyle THEN 1 ELSE 0,
                         "didUpdateStyle", graphStyle)
    IN  /\ lastEvent' = [kind |-> IF affectsStyle THEN "style" ELSE "config",
                         subject |-> <<>>,
                         posted |-> done.posted, errors |-> done.errors, removed |-> {}]
        /\ UNCHANGED <<foamReady, panel, alive, nextPanel, calls, listeners,
                       disposeHooks, editorHandlers, graphVars>>

\* foam-vscode.show-graph is invoked: the panel is revealed, or the
\* handler suspends at await foamPromise.
ShowGraph ==
    /\ IF panel # undefined
       THEN /\ lastEvent' = [kind |-> "reveal", subject |-> <<>>,
                             posted |-> <<>>, errors |-> 0, removed |-> {}]
            /\ UNCHANGED calls
       ELSE /\ Len(calls) + nextPanel <= MaxPanels
            /\ calls' = Append(calls, [pc |-> "foam", created |-> undefined])
            /\ UNCHANGED lastEvent
    /\ UNCHANGED <<foamReady, panel, alive, nextPanel, listeners,
                   disposeHooks, editorHandlers, graphVars>>

\* The handler resumes after await foamPromise and enters createGraphPanel,
\* which creates the webview panel and suspends at await
\* getWebviewContent.
CreatePanel(i) ==
    /\ i \in 1..Len(calls)
    /\ calls[i].pc = "foam"
    /\ foamReady
    /\ alive' = alive \cup {nextPanel}
    /\ nextPanel' = nextPanel + 1
    /\ calls' = [calls EXCEPT ![i] = [pc |-> "content", created |-> nextPanel]]
    /\ UNCHANGED <<foamReady, panel, listeners, disposeHooks, editorHandlers,
                   lastEvent, graphVars>>

remove(seq, i) == SubSeq(seq, 1, i - 1) \o SubSeq(seq, i + 1, Len(seq))

\* createGraphPanel resumes.  Setting the html of a webview disposed in the
\* meantime raises and the handler ends there; otherwise the panel is
\* assigned and the listeners and callbacks are registered.
PanelReady(i) ==
    /\ i \in 1..Len(calls)
    /\ calls[i].pc = "content"
    /\ calls' = remove(calls, i)
    /\ IF calls[i].created \in alive
       THEN /\ panel' = calls[i].created
            /\ listeners' = listeners \cup {calls[i].created}
            /\ disposeHooks' = disposeHooks \cup {calls[i].created}
            /\ editorHandlers' = editorHandlers + 1
            /\ lastEvent' = [kind |-> "opened", subject |-> <<>>,
                             posted |-> <<>>, errors |-> 0, removed |-> {}]
       ELSE /\ UNCHANGED <<panel, listeners, disposeHooks, editorHandlers>>
            /\ lastEvent' = [kind |-> "open failed", subject |-> <<>>,
                             posted |-> <<>>, errors |-> 1, removed |-> {}]
    /\ UNCHANGED <<foamReady, alive, nextPanel, graphVars>>

\* The user closes the panel p: its onDidDispose callback, if registered,
\* disposes the three listeners and resets panel.
PanelDisposed(p) ==
    /\ p \in alive
    /\ alive' = alive \ {p}
    /\ IF p \in disposeHooks
       THEN /\ listeners' = listeners \ {p}
            /\ disposeHooks' = disposeHooks \ {p}
            /\ panel' = undefined
       ELSE UNCHANGED <<listeners, disposeHooks, panel>>
    /\ lastEvent' = [kind |-> "disposed", subject |-> <<>>,
                     posted |-> <<>>, errors |-> 0, removed |-> {}]
    /\ UNCHANGED <<foamReady, nextPanel, calls, editorHandlers, graphVars>>

\* The documents an editor may show: files, an untitled document, and
\* no editor at all.
NoEditor == [scheme |-> "", path |-> <<>>]
EditorDocuments ==
    {NoEditor} \cup FileUris \cup {[scheme |-> "untitled", path |-> <<"/", "a">>]}

\* onDidChangeActiveTextEditor: every registered callback runs.
ActiveEditorChanged(doc) ==
    LET selects == doc.scheme = "file" /\ isSome(resources, doc)
        done == postEach(IF selects THEN editorHandlers ELSE 0,
                         "didSelectNote", doc.path)
    IN  /\ lastEvent' = [kind |-> "editor", subject |-> <<>>,
                         posted |-> done.posted, errors |-> done.errors, removed |-> {}]
        /\ UNCHANGED <<foamReady, panel, alive, nextPanel, calls, listeners,
                       disposeHooks, editorHandlers, graphVars>>

\* The webview of the panel p reports webviewDidLoad: the style and the
\* graph are posted to it.
WebviewDidLoad(p) ==
    /\ p \in alive
    /\ p \notin {calls[i].created : i \in 1..Len(calls)}
    /\ LET snapshot == generateGraphData(resources, connections, titleMaxLength)
       IN  /\ graphData' = [generated |-> TRUE] @@ snapshot
           /\ lastEvent' =
                  [kind |-> "webviewDidLoad", subject |-> <<>>,
                   posted |-> <<Message("didUpdateStyle", p, graphStyle),
                                Message("didUpdateGraphData", p, snapshot)>>,
                   errors |-> 0, removed |-> {}]
    /\ UNCHANGED <<resources, connections, titleMaxLength, foamReady, panel,
                   alive, nextPanel, calls, listeners, disposeHooks,
                   editorHandlers>>

\* The link targets of the notes added while a panel is followed.
PanelTargets == {<<>>, <<[scheme |-> "placeholder", path |-> <<"c">>]>>}

PanelNext ==
    \/ FoamResolves
    \/ \E affectsStyle \in BOOLEAN : ConfigurationChanged(affectsStyle)
    \/ ShowGraph
    \/ \E i \in 1..MaxPanels : CreatePanel(i)
    \/ \E i \in 1..MaxPanels : PanelReady(i)
    \/ \E p \in 1..MaxPanels : PanelDisposed(p)
    \/ \E doc \in EditorDocuments : ActiveEditorChanged(doc)
    \/ \E p \in 1..MaxPanels : WebviewDidLoad(p)
    \/ \E note \in WatchedNotes : \E targets \in PanelTargets :
           WorkspaceAdd(note, targets)
    \/ \E uri \in FileUris : WorkspaceDelete(uri)

LinkIdle  == /\ linkIndex = [notes |-> {}, raising |-> {}] /\ linkCall = NoCall
GraphIdle == /\ resources = <<>> /\ connections = <<>>
             /\ titleMaxLength = 0 /\ graphData = NoGraphData
BufferIdle == /\ eol = LF /\ currentLine = <<>> /\ emitted = <<>>
              /\ written = <<>> /\ writes = 0
MatcherIdle == /\ matcher = newMatcher(<<>>, <<>>, <<>>)
               /\ matchCall = NoMatchCall
PanelIdle == PanelInit

Init == PreviewInit /\ LinkIdle /\ GraphIdle /\ BufferIdle /\ MatcherIdle /\ PanelIdle
Next ==
    PreviewNext
    /\ UNCHANGED <<linkVars, graphVars, bufferVars, matcherVars, panelVars>>
Spec == Init /\ [][Next]_vars

PreviewIdle ==
    /\ workspace = [k \in NoteKeys |-> <<>>]
    /\ refsStack = <<>> /\ frames = <<>> /\ lastReturn = NoReturn
    /\ html = <<>> /\ renders = 0

\* The connect-wikilinks callback on its own.
LinkSpecInit == PreviewIdle /\ LinkInit /\ GraphIdle /\ BufferIdle /\ MatcherIdle /\ PanelIdle
LinkSpecNext ==
    LinkNext
    /\ UNCHANGED <<previewVars, graphVars, bufferVars, matcherVars, panelVars>>
LinkSpec == LinkSpecInit /\ [][LinkSpecNext]_vars

\* The graph export on its own.
GraphSpecInit == PreviewIdle /\ LinkIdle /\ GraphInit /\ BufferIdle /\ MatcherIdle /\ PanelIdle
GraphSpecNext ==
    GraphNext
    /\ UNCHANGED <<previewVars, linkVars, bufferVars, matcherVars, panelVars>>
GraphSpec == GraphSpecInit /\ [][GraphSpecNext]_vars

\* The line buffer of the test runner on its own.
BufferSpecInit == PreviewIdle /\ LinkIdle /\ GraphIdle /\ BufferInit /\ MatcherIdle /\ PanelIdle
BufferSpecNext ==
    BufferNext
    /\ UNCHANGED <<previewVars, linkVars, graphVars, matcherVars, panelVars>>
BufferSpec == BufferSpecInit /\ [][BufferSpecNext]_vars

\* The Matcher on its own.
MatcherSpecInit ==
    PreviewIdle /\ LinkIdle /\ GraphIdle /\ BufferIdle /\ MatcherInit /\ PanelIdle
MatcherSpecNext ==
    MatcherNext
    /\ UNCHANGED <<previewVars, linkVars, graphVars, bufferVars, panelVars>>
MatcherSpec == MatcherSpecInit /\ [][MatcherSpecNext]_vars

OthersIdle == PreviewIdle /\ LinkIdle /\ BufferIdle /\ MatcherIdle
othersVars == <<previewVars, linkVars, bufferVars, matcherVars>>

\* The workspace and its graph, with no panel ever opened.
WorkspaceSpecInit == OthersIdle /\ GraphIdle /\ PanelInit
WorkspaceSpecNext == WorkspaceNext /\ UNCHANGED othersVars
WorkspaceSpec == WorkspaceSpecInit /\ [][WorkspaceSpecNext]_vars

\* The graph panel over a changing workspace.
PanelSpecInit == OthersIdle /\ GraphIdle /\ PanelInit
PanelSpecNext == PanelNext /\ UNCHANGED othersVars
PanelSpec == PanelSpecInit /\ [][PanelSpecNext]_vars

(***************************************************************************)
(* Properties of include-notes                                             *)
(***************************************************************************)
\* The include-notes expansions in progress, innermost last.
Expanding == SelectSeq(frames, LAMBDA f : f.token # None)

\* C1: rendering notes that embed each other terminates: the nested
\* expansion never exhausts the call stack, and an embed of a note whose
\* expansion is already in progress (whatever the letter case of the two
\* tokens) is not expanded a second time.
C1_CycleTerminates ==
    /\ lastReturn.error # "RangeError"
    /\ \A i, j \in 1..Len(Expanding) :
           i < j => toLowerCase(Expanding[i].token) # toLowerCase(Expanding[j].token)

\* C2: on every exit path of the replace callback refsStack is what it was
\* when the callback was entered.
C2_StackRestored ==
    lastReturn.kind # "none" => lastReturn.after = lastReturn.before

\* C3: a resolvable token whose lower-cased form is on refsStack when the
\* callback is entered gets the cyclic warning and md.render is not called
\* on its target.
C3_GuardLowerCased ==
    /\ \A i \in 1..Len(Expanding) :
           ~includes(Expanding[i].before, toLowerCase(Expanding[i].token))
    /\ (/\ lastReturn.kind # "none"
        /\ find(lastReturn.token) \in NoteKeys
        /\ includes(lastReturn.before, toLowerCase(lastReturn.token)))
           => (lastReturn.kind = "cyclic" /\ ~lastReturn.expanded)

\* C4: refsStack holds no key twice, so it is never longer than the number
\* of distinct notes.
C4_StackDistinct ==
    /\ \A i, j \in 1..Len(refsStack) : i # j => refsStack[i] # refsStack[j]
    /\ Len(refsStack) <= Cardinality(NoteKeys)

\* C5 as stated: every call returns the rendered html, the cyclic warning
\* or the token put back; nothing else, also when something was raised.
C5_ThreeOutputs ==
    lastReturn.kind \in {"none", "html", "cyclic", "unresolved"}

\* C5 amended: every call returns one of four outputs and raises nothing:
\* the rendered html of the resolved note when the expansion completed, the
\* cyclic warning when the guard tripped, the token put back as ![[token]]
\* when find returned nothing, and the empty string exactly when find or
\* the nested render raised.
C5_FourOutputs ==
    /\ lastReturn.kind \in {"none", "html", "cyclic", "unresolved", "error"}
    /\ lastReturn.kind = "html" =>
           /\ find(lastReturn.token) \in NoteKeys
           /\ lastReturn.expanded /\ lastReturn.error = None
    /\ lastReturn.kind = "cyclic" =>
           /\ find(lastReturn.token) \in NoteKeys
           /\ includes(lastReturn.before, lastReturn.token)
           /\ lastReturn.html = CyclicWarning(lastReturn.token)
           /\ lastReturn.error = None
    /\ lastReturn.kind = "unresolved" =>
           /\ find(lastReturn.token) = None
           /\ lastReturn.html = RawEmbed(lastReturn.token)
           /\ lastReturn.error = None
    /\ lastReturn.kind = "error" <=> lastReturn.error # None
    /\ lastReturn.error # None => lastReturn.html = <<>>

\* A nested render raised and the enclosing call has returned.
C5_Witness ==
    /\ lastReturn.kind = "error"
    /\ lastReturn.error = "render"
    /\ lastReturn.expanded

(***************************************************************************)
(* Properties of connect-wikilinks                                         *)
(***************************************************************************)
LinkCalled == linkCall.wikilink # <<>>

\* C6: the callback returns the foam-note-link anchor with the resource's
\* title and file path when find resolves the key, the placeholder anchor
\* on the key when find returns nothing, and the placeholder anchor (on the
\* whole token) when an exception is raised; it raises nothing itself.
C6_WikilinkOutputs ==
    LinkCalled =>
        LET found == linkFind(linkIndex, linkCall.key)
            out   == linkCall.out
        IN  /\ found.kind = "found" =>
                /\ out.class = "foam-note-link"
                /\ out.title = found.resource.title
                /\ out.href = found.resource.uri.path
                /\ out.dataHref = found.resource.uri.path
            /\ found.kind = "none" =>
                /\ out.class = "foam-placeholder-link"
                /\ out.title = "Link to non-existing resource"
                /\ out.href = "javascript:void(0);"
                /\ out.content = linkCall.key
            /\ found.kind = "raised" =>
                /\ out.class = "foam-placeholder-link"
                /\ out.title = "Link to non-existing resource"
                /\ out.href = "javascript:void(0);"
                /\ out.content = linkCall.wikilink

\* An aliased link whose lookup raised.
C6_Witness ==
    /\ LinkCalled
    /\ linkHasAlias(linkCall.wikilink)
    /\ linkFind(linkIndex, linkCall.key).kind = "raised"
    /\ linkCall.out.class = "foam-placeholder-link"

\* C7: the token is split at its first '|': the key passed to find holds no
\* '|', and key, '|', label put together give the token again (the label
\* being the content of a resolved link); a token without '|' is both key
\* and label.
C7_AliasSplit ==
    LinkCalled =>
        LET w       == linkCall.wikilink
            key     == linkCall.key
            hasBar  == \E i \in 1..Len(w) : w[i] = "|"
            linked  == linkCall.out.class = "foam-note-link"
        IN  /\ \A i \in 1..Len(key) : hasBar => key[i] # "|"
            /\ ~hasBar => key = w
            /\ hasBar => SubSeq(w, 1, Len(key) + 1) = key \o <<"|">>
            /\ (linked /\ ~hasBar) => linkCall.out.content = w
            /\ (linked /\ hasBar) => key \o <<"|">> \o linkCall.out.content = w

\* A resolved link whose label itself holds a '|'.
C7_Witness ==
    /\ LinkCalled
    /\ linkCall.out.class = "foam-note-link"
    /\ \E i \in 1..Len(linkCall.out.content) : linkCall.out.content[i] = "|"

(***************************************************************************)
(* Properties of the graph export                                          *)
(***************************************************************************)
\* C8: no two entries of the exported links have both the same source and
\* the same target.
C8_LinksDistinct ==
    \A i, j \in 1..Len(graphData.links) :
        i # j => graphData.links[i] # graphData.links[j]

\* C9: every placeholder that is the target of a connection is in nodeInfo
\* under its identifier, with type "placeholder", its identifier as title
\* and empty properties, also when the workspace lists a resource under the
\* same key.
C9_PlaceholderNodes ==
    graphData.generated =>
        \A c \in Range(connections) :
            c.target.scheme = "placeholder" =>
                /\ c.target.path \in DOMAIN graphData.nodeInfo
                /\ graphData.nodeInfo[c.target.path].type = "placeholder"
                /\ graphData.nodeInfo[c.target.path].title = c.target.path
                /\ DOMAIN graphData.nodeInfo[c.target.path].properties = {}

\* A placeholder target that the workspace lists too, its listed title cut.
C9_Witness ==
    /\ graphData.generated
    /\ \E c \in Range(connections), r \in Range(resources) :
           /\ c.target.scheme = "placeholder"
           /\ r.uri.path = c.target.path
           /\ titleMaxLength > 0
           /\ Len(r.uri.path) > titleMaxLength

\* C10: with m the configured maximum, the exported title of a note is the
\* first m characters of its title followed by "..." when m > 0 and the
\* title is longer than m, and the title itself otherwise.
C10_TitleTruncation ==
    graphData.generated =>
        \A n \in Range(resources) :
            n.type = "note" =>
                LET m == titleMaxLength
                    t == n.title
                    exported == graphData.nodeInfo[n.uri.path].title
                IN  /\ (m > 0 /\ Len(t) > m) =>
                        /\ Len(exported) = m + 3
                        /\ \A i \in 1..m : exported[i] = t[i]
                        /\ \A i \in 1..3 : exported[m + i] = "."
                    /\ (m > 0 /\ Len(t) <= m) => exported = t
                    /\ m <= 0 => exported = t

\* A note whose title is exactly as long as the maximum, and one cut.
C10_Witness ==
    /\ graphData.generated
    /\ titleMaxLength > 0
    /\ \E n \in Range(resources) :
           n.type = "note" /\ Len(n.title) = titleMaxLength
    /\ \E n \in Range(resources) :
           n.type = "note" /\ Len(n.title) > titleMaxLength

(***************************************************************************)
(* Properties of bufferLinesAndLog                                         *)
(***************************************************************************)
\* C20: what was passed to out is, in order and each once, the complete
\* EOL-terminated lines of all chunks put together; the text after the
\* last EOL is held back in currentLine.
C20_LinesReassembled ==
    LET all == split(written, eol)
    IN  /\ emitted = SubSeq(all, 1, Len(all) - 1)
        /\ currentLine = all[Len(all)]

(***************************************************************************)
(* Properties of the Matcher                                               *)
(***************************************************************************)
\* f lies in the folder root.
Under(root, f) ==
    /\ Len(f) > Len(root)
    /\ SubSeq(f, 1, Len(root)) = root
    /\ (root[Len(root)] = "/" \/ f[Len(root) + 1] = "/")

\* The part of f below the folder root.
Below(root, f) ==
    SubSeq(f, Len(root) + (IF root[Len(root)] = "/" THEN 1 ELSE 2), Len(f))

Included(f) == \E i \in 1..Len(matcher.include) : globMatch(matcher.include[i], f)
Excluded(f) == \E i \in 1..Len(matcher.exclude) : globMatch(matcher.exclude[i], f)

\* C11: isMatch(f) is true iff f lies under a root, matches an include
\* glob rendered relative to that root and matches no exclude glob; a file
\* matched by an include and by an exclude pattern is not matched; and when
\* every include pattern is a single-segment pattern, a file in a
\* sub-folder of the root is not matched.
C11_IsMatch ==
    matchCall.op = "isMatch" =>
        LET f == matchCall.files[1]
        IN  /\ matchCall.answer <=>
                   (/\ \E r \in Range(matcher.folders) : Under(r, f)
                    /\ Included(f)
                    /\ ~Excluded(f))
            /\ (Included(f) /\ Excluded(f)) => ~matchCall.answer
            /\ (/\ matchCall.answer
                /\ \A i \in 1..Len(matcher.include) :
                       GlobStar \notin Range(matcher.include[i]))
                   => \E r \in Range(matcher.folders) :
                          Under(r, f) /\ "/" \notin Range(Below(r, f))

\* A file matched by an include and by an exclude pattern was asked for.
C11_Witness ==
    /\ matchCall.op = "isMatch"
    /\ Included(matchCall.files[1])
    /\ Excluded(matchCall.files[1])
    /\ ~matchCall.answer

\* The positions of files whose file is matched.
Matching(files) == {i \in 1..Len(files) : isMatch(matcher, files[i])}

\* C12: match(files) is the files at the matching positions, in their
\* order: nothing added, dropped or reordered.
C12_MatchFilters ==
    matchCall.op = "match" =>
        LET files == matchCall.files
            I     == Matching(files)
            nth(k) == CHOOSE i \in I : Cardinality({j \in I : j <= i}) = k
        IN  /\ Len(matchCall.matches) = Cardinality(I)
            /\ \A k \in 1..Len(matchCall.matches) :
                   matchCall.matches[k] = files[nth(k)]

\* Two files were given, the first is dropped and the second returned.
C12_Witness ==
    /\ matchCall.op = "match"
    /\ Len(matchCall.files) = 2
    /\ Matching(matchCall.files) = {2}
    /\ matchCall.matches = <<matchCall.files[2]>>

\* C15: generating the snapshot leaves every resource (title, properties,
\* tags) and every connection as it was; a cut title is in the snapshot
\* only.
C15_ExportChangesNothing ==
    [][/\ resources' = resources
       /\ connections' = connections
       /\ titleMaxLength' = titleMaxLength]_vars

\* A snapshot holding a cut title of a note whose stored title is whole.
C15_Witness ==
    /\ graphData.generated
    /\ \E n \in Range(resources) :
           /\ n.type = "note"
           /\ Len(n.title) > titleMaxLength /\ titleMaxLength > 0
           /\ graphData.nodeInfo[n.uri.path].title # n.title

WorkspaceEvent == lastEvent.kind \in {"added", "updated", "deleted"}

CurrentSnapshot == generateGraphData(resources, connections, titleMaxLength)

\* C13: once a note is deleted, no connection has it as source, every
\* placeholder without an incoming connection is gone from list() and from
\* the exported nodeInfo, and a placeholder another note still refers to
\* remains in both.
C13_DeleteCascade ==
    lastEvent.kind = "deleted" =>
        /\ \A i \in 1..Len(connections) :
               connections[i].source.path # lastEvent.subject
        /\ \A u \in PlaceholderUris :
               IF referenced(connections, u)
               THEN /\ has(resources, u)
                    /\ u \notin lastEvent.removed
                    /\ u.path \in DOMAIN CurrentSnapshot.nodeInfo
                    /\ CurrentSnapshot.nodeInfo[u.path].type = "placeholder"
               ELSE /\ ~has(resources, u)
                    /\ u.path \notin DOMAIN CurrentSnapshot.nodeInfo

\* C13 witness: a delete has removed a placeholder that lost its last
\* reference while another placeholder, still referred to, is listed.
C13_Witness ==
    /\ lastEvent.kind = "deleted"
    /\ \E u \in PlaceholderUris : u \in lastEvent.removed
    /\ \E u \in PlaceholderUris :
           referenced(connections, u) /\ has(resources, u)

\* C14: while panel is set, a workspace add, update or delete event posts
\* exactly one didUpdateGraphData message to the panel, carrying the
\* snapshot taken after the mutation.
C14_OneUpdatePerEvent ==
    (WorkspaceEvent /\ panel # undefined) =>
        lastEvent.posted =
            <<Message("didUpdateGraphData", panel, CurrentSnapshot)>>

\* C16: at most one graph panel is alive at any time.
C16_OnePanel == Cardinality(alive) <= 1

\* C17: a change of foam.graph.style posts didUpdateStyle to the open
\* panel, and with no panel it posts nothing and raises nothing.
C17_StyleOnlyWhenOpen ==
    lastEvent.kind = "style" =>
        /\ lastEvent.errors = 0
        /\ lastEvent.posted =
               IF panel = undefined THEN <<>>
               ELSE <<Message("didUpdateStyle", panel, graphStyle)>>

\* C18: with every panel disposed no workspace listener is left and panel
\* is undefined, no workspace event posts to a disposed panel, and a panel
\* that has just been opened has exactly one listener per channel.
C18_ListenersReleased ==
    /\ alive = {} => (listeners = {} /\ panel = undefined)
    /\ WorkspaceEvent =>
           \A i \in 1..Len(lastEvent.posted) : lastEvent.posted[i].to \in alive
    /\ lastEvent.kind = "opened" => Cardinality(listeners) = 1

\* C19: a change of the active editor posts at most one didSelectNote, only
\* to a panel that is open, and with no panel open it posts nothing and
\* raises nothing.
C19_SelectOnce ==
    lastEvent.kind = "editor" =>
        /\ Len(lastEvent.posted) <= 1
        /\ \A i \in 1..Len(lastEvent.posted) : lastEvent.posted[i].to \in alive
        /\ alive = {} => (lastEvent.posted = <<>> /\ lastEvent.errors = 0)

====
